---- MODULE Spec2Model ----
(***************************************************************************)
(* ShiCo: VocabularyMonitor.trackClouds and its helpers                    *)
(* (shico/vocabularymonitor.py), the lru_cache of CachedW2VModelEvaluator  *)
(* and getRangeMiddle (shico/format.py).                                   *)
(*                                                                         *)
(* Conventions                                                             *)
(*  - a period key 'Y0_YN' is the record [y0 |-> Y0, yn |-> YN]; the       *)
(*    string order of four-digit keys is the order on (y0, yn);            *)
(*  - similarities and weights are fixed-point hundredths (1.0 = 100);     *)
(*  - terms are strings, ordered as Python orders them (TermOrder);        *)
(*  - a Python dict / defaultdict is a sequence of <<key, value>> pairs in *)
(*    insertion order, a SortedDict one kept sorted by key.                *)
(***************************************************************************)
EXTENDS Integers, Sequences, FiniteSets, TLC

VARIABLES
    args,           \* the arguments of the trackClouds call
    pc,             \* position of the caller inside trackClouds
    outcome,        \* "running", "returned", "KeyError", "Exception"
    sortedKeys,     \* trackClouds local: the selected keys, in visiting order
    keyPos,         \* index in sortedKeys of the period being expanded
    aSeedSet,       \* trackClouds local: current seed set
    yTerms,         \* trackClouds local: SortedDict key -> [(word, weight)]
    yLinks,         \* trackClouds local: SortedDict key -> {seed: [(word, dist)]}
    threads,        \* _getRelatedTerms local: state of each worker thread
    joined,         \* _getRelatedTerms: number of threads already joined
    queries,        \* _getRelatedTerms local: list the workers append to
    core,           \* locals of the last _trackCore call
    visited,        \* history: one record per expanded period, in order
    cache,          \* lru_cache of CachedW2VModelEvaluator.most_similar
    lastQuery,      \* the last most_similar call made through the wrapper
    rangeArgs,      \* the arguments of a getRangeMiddle call
    rangeResult,    \* its result
    termList,       \* cleanTermList: the (word, weight) list to be filtered
    cleanPos,       \* cleanTermList: number of items the loop has handled
    cleanTerms,     \* cleanTermList local: the items kept so far
    aggArgs,        \* aggregate: the period keys, window size and step frequency
    aggCalled,      \* aggregate has run
    intervals,      \* aggregate: the windows _arrangeIntervals returned
    aggData,        \* aggregate result: aggregate key -> merged vocabulary
    aggMeta         \* aggregate result: aggregate key -> window of period keys

vars == <<args, pc, outcome, sortedKeys, keyPos, aSeedSet, yTerms, yLinks,
          threads, joined, queries, core, visited, cache, lastQuery,
          rangeArgs, rangeResult, termList, cleanPos, cleanTerms,
          aggArgs, aggCalled, intervals, aggData, aggMeta>>

trackVars == <<args, pc, outcome, sortedKeys, keyPos, aSeedSet, yTerms,
               yLinks, threads, joined, queries, core, visited>>
cacheVars == <<cache, lastQuery>>
rangeVars == <<rangeArgs, rangeResult>>
cleanVars == <<termList, cleanPos, cleanTerms>>
aggVars == <<aggArgs, aggCalled, intervals, aggData, aggMeta>>

-----------------------------------------------------------------------------
(* Bounds of the model *)

NumModels == 3          \* number of loaded period models
MaxSeeds == 2           \* longest seed list the caller passes
MaxRelatedTerms == 2    \* the maxRelatedTerms the caller passes
maxsize == 3            \* capacity of the lru_cache (1000 in the code), scaled
MaxYearOffset == 4      \* getRangeMiddle: start years BaseYear..BaseYear+MaxYearOffset
MaxYearSpan == 10       \* getRangeMiddle: end year - start year is at most this
MaxTermList == 3        \* cleanTermList: longest list passed
MaxPeriods == 5         \* aggregate: number of period keys to choose from
MaxWindow == 6          \* aggregate: largest window size passed

-----------------------------------------------------------------------------
(* Sequences *)

Range(s) == {s[i] : i \in 1..Len(s)}

Reverse(s) == [i \in 1..Len(s) |-> s[Len(s) + 1 - i]]

Take(s, n) == SubSeq(s, 1, IF n < Len(s) THEN n ELSE Len(s))

IndexOf(s, x) == CHOOSE i \in 1..Len(s) : s[i] = x /\ \A j \in 1..(i-1) : s[j] # x

RECURSIVE SumSeq(_)
SumSeq(s) == IF s = <<>> THEN 0 ELSE Head(s) + SumSeq(Tail(s))

-----------------------------------------------------------------------------
(* Period keys and the loaded models *)

None == [y0 |-> 0, yn |-> 0]

BaseYear == 1950

PeriodKey(k) == [y0 |-> BaseYear + (k - 1), yn |-> BaseYear + 9 + (k - 1)]

KeyLess(a, b) == a.y0 < b.y0 \/ (a.y0 = b.y0 /\ a.yn < b.yn)

\* self._models.keys(): a SortedDict, so the keys come out sorted
ModelKeys == [k \in 1..NumModels |-> PeriodKey(k)]

AbsentKey == [y0 |-> 1900, yn |-> 1909]

TermOrder == <<"a", "b", "c", "d">>

Terms == Range(TermOrder)

Rank(t) == CHOOSE i \in 1..Len(TermOrder) : TermOrder[i] = t

\* The embedding models: three different ones, repeated cyclically.
ModelTable ==
    << [vocab |-> {"a", "b", "c"},
        sim   |-> [p \in {{"a","b"}, {"a","c"}, {"b","c"}} |->
                     CASE p = {"a","b"} -> 80
                       [] p = {"a","c"} -> 60
                       [] p = {"b","c"} -> 40]],
       [vocab |-> {"a", "b", "c", "d"},
        sim   |-> [p \in {{"a","b"}, {"a","c"}, {"a","d"},
                          {"b","c"}, {"b","d"}, {"c","d"}} |->
                     CASE p = {"a","b"} -> 50
                       [] p = {"a","c"} -> 70
                       [] p = {"a","d"} -> 30
                       [] p = {"b","c"} -> 20
                       [] p = {"b","d"} -> 90
                       [] p = {"c","d"} -> 60]],
       [vocab |-> {"b", "c", "d"},
        sim   |-> [p \in {{"b","c"}, {"b","d"}, {"c","d"}} |->
                     CASE p = {"b","c"} -> 70
                       [] p = {"b","d"} -> 50
                       [] p = {"c","d"} -> 80]] >>

ModelIndex(key) == CHOOSE k \in 1..NumModels : ModelKeys[k] = key

Model(key) == ModelTable[((ModelIndex(key) - 1) % Len(ModelTable)) + 1]

\* gensim most_similar: the topn words of the vocabulary nearest to term,
\* the term itself left out, highest similarity first.
RECURSIVE Ranked(_, _, _)
Ranked(m, term, left) ==
    IF left = {} THEN <<>>
    ELSE LET best == CHOOSE w \in left :
                        \A v \in left : m.sim[{term, v}] <= m.sim[{term, w}]
         IN  <<<<best, m.sim[{term, best}]>>>> \o Ranked(m, term, left \ {best})

Known(m, term) == term \in m.vocab

most_similar(m, term, topn) == Take(Ranked(m, term, m.vocab \ {term}), topn)

-----------------------------------------------------------------------------
(* Python dicts as sequences of <<key, value>> pairs *)

DictKeys(d) == [i \in 1..Len(d) |-> d[i][1]]

DictHas(d, k) == \E i \in 1..Len(d) : d[i][1] = k

DictGet(d, k) == d[CHOOSE i \in 1..Len(d) : d[i][1] = k][2]

\* d[k] = v on a dict: an existing key keeps its place, a new one goes last
DictSet(d, k, v) ==
    IF DictHas(d, k)
    THEN [i \in 1..Len(d) |-> IF d[i][1] = k THEN <<k, v>> ELSE d[i]]
    ELSE Append(d, <<k, v>>)

\* a plain dict in place of the SortedDict: keys stay in insertion order
SortedDictSetUnsorted(d, k, v) == DictSet(d, k, v)

\* d[k] = v on a SortedDict keyed by period key: a new key goes to its
\* sorted position
SortedDictSet(d, k, v) ==
    IF DictHas(d, k)
    THEN [i \in 1..Len(d) |-> IF d[i][1] = k THEN <<k, v>> ELSE d[i]]
    ELSE LET n == Cardinality({i \in 1..Len(d) : KeyLess(d[i][1], k)})
         IN  SubSeq(d, 1, n) \o <<<<k, v>>>> \o SubSeq(d, n + 1, Len(d))

-----------------------------------------------------------------------------
(* _getRelatedTermsThread, _getRelatedTerms *)

\* the worker lets the KeyError of an unknown term escape: nothing is appended
ThreadAppendNoCatch(q, m, term, topn) ==
    IF Known(m, term) THEN Append(q, <<term, most_similar(m, term, topn)>>)
    ELSE q

\* what one worker does to queries (cleaningFunction is None)
ThreadAppend(q, m, term, topn) ==
    IF Known(m, term) THEN Append(q, <<term, most_similar(m, term, topn)>>)
    ELSE Append(q, <<term, <<>>>>)

\* the order of queries.sort() on (term, newTerms) tuples with distinct terms
QueryLess(a, b) == Rank(a[1]) < Rank(b[1])

RECURSIVE InsertQuery(_, _)
InsertQuery(sorted, e) ==
    IF sorted = <<>> THEN <<e>>
    ELSE IF QueryLess(e, Head(sorted)) THEN <<e>> \o sorted
    ELSE <<Head(sorted)>> \o InsertQuery(Tail(sorted), e)

RECURSIVE SortFrom(_, _)
SortFrom(acc, rest) ==
    IF rest = <<>> THEN acc ELSE SortFrom(InsertQuery(acc, Head(rest)), Tail(rest))

\* the list is returned in the order the workers finished
SortQueriesSkipped(q) == q

SortQueries(q) == SortFrom(<<>>, q)

-----------------------------------------------------------------------------
(* _trackCore, _getCommonTerms, _pruned, _trackInlink *)

DefaultWordBoost == 100

Reward(mode, tSim) == IF mode = "1-sim" THEN 100 - tSim ELSE 100

\* links[term].append(pair) on a defaultdict(list)
LinksAppend(links, term, pair) ==
    IF DictHas(links, term)
    THEN DictSet(links, term, Append(DictGet(links, term), pair))
    ELSE Append(links, <<term, <<pair>>>>)

\* dRelatedTerms[newTerm] += r on a defaultdict(float)
WeightAdd(d, t, r) ==
    IF DictHas(d, t) THEN DictSet(d, t, DictGet(d, t) + r)
    ELSE Append(d, <<t, r>>)

\* the inner loop over one seed's neighbours, with its break
RECURSIVE AddNewTerms(_, _, _, _, _)
AddNewTerms(st, term, newTerms, minSim, reward) ==
    IF newTerms = <<>> THEN st
    ELSE IF Head(newTerms)[2] < minSim THEN st
    ELSE AddNewTerms(
            [d     |-> WeightAdd(st.d, Head(newTerms)[1],
                                 Reward(reward, Head(newTerms)[2])),
             links |-> LinksAppend(st.links, term, Head(newTerms))],
            term, Tail(newTerms), minSim, reward)

\* the outer loop over relatedTermQueries
RECURSIVE Accumulate(_, _, _, _, _)
Accumulate(st, qs, minSim, wordBoost, reward) ==
    IF qs = <<>> THEN st
    ELSE LET term == Head(qs)[1]
             seeded == [d     |-> DictSet(st.d, term, wordBoost),
                        links |-> LinksAppend(st.links, term, <<term, 0>>)]
         IN  Accumulate(AddNewTerms(seeded, term, Head(qs)[2], minSim, reward),
                        Tail(qs), minSim, wordBoost, reward)

\* Counter.most_common: a stable sort by descending weight
RECURSIVE MostCommon(_)
MostCommon(d) ==
    IF d = <<>> THEN <<>>
    ELSE LET i == CHOOSE i \in 1..Len(d) :
                    /\ \A j \in 1..Len(d) : d[j][2] <= d[i][2]
                    /\ \A j \in 1..(i - 1) : d[j][2] < d[i][2]
         IN  <<d[i]>> \o MostCommon(SubSeq(d, 1, i - 1) \o SubSeq(d, i + 1, Len(d)))

\* one term too few is selected
_getCommonTermsOneShort(terms, N) == Take(MostCommon(terms), N - 1)

_getCommonTerms(terms, N) == Take(MostCommon(terms), N)

\* the pairs are returned as they are
_prunedNothing(pairs, words) == pairs

_pruned(pairs, words) == SelectSeq(pairs, LAMBDA p : p[1] \in words)

PruneLinks(links, words) ==
    [i \in 1..Len(links) |-> <<links[i][1], _pruned(links[i][2], words)>>]

\* the new seed set misses the last word of the vocabulary
NewSeedSetTruncated(terms) == [i \in 1..(Len(terms) - 1) |-> terms[i][1]]

\* _trackInlink: newSeedSet = [word for word, weight in terms]
NewSeedSet(terms) == [i \in 1..Len(terms) |-> terms[i][1]]

-----------------------------------------------------------------------------
(* The inputs of trackClouds *)

SeedAlphabet == {"a", "b", "d"}

\* duplicate-free seed lists of 1..MaxSeeds terms
RECURSIVE SeedLists(_)
SeedLists(n) ==
    IF n = 0 THEN {<<>>}
    ELSE LET shorter == SeedLists(n - 1)
         IN  shorter \cup
             {Append(s, t) : s \in {x \in shorter : Len(x) = n - 1},
                             t \in SeedAlphabet} 

SeedChoices ==
    {s \in SeedLists(MaxSeeds) :
        /\ Len(s) >= 1
        /\ \A i, j \in 1..Len(s) : i # j => s[i] # s[j]}

KeyChoices == Range(ModelKeys) \cup {None, AbsentKey}

Algorithms == {"adaptive", "non-adaptive", "inlinks"}

ArgChoices ==
    [seedTerms       : SeedChoices,
     maxTerms        : {1, 3},
     maxRelatedTerms : {MaxRelatedTerms},
     startKey        : KeyChoices,
     endKey          : KeyChoices,
     minSim          : {0, 60},
     wordBoost       : {100, 200},
     forwards        : BOOLEAN,
     sumSimilarity   : BOOLEAN,
     algorithm       : Algorithms]

NoCore == [seedTerms |-> <<>>, wordBoost |-> 0, reward |-> "none",
           dRelatedTerms |-> <<>>, links |-> <<>>]

-----------------------------------------------------------------------------
(* trackClouds *)

InitTrack ==
    /\ args \in ArgChoices
    /\ pc = "select"
    /\ outcome = "running"
    /\ sortedKeys = <<>>
    /\ keyPos = 0
    /\ aSeedSet = args.seedTerms
    /\ yTerms = <<>>
    /\ yLinks = <<>>
    /\ threads = <<>>
    /\ joined = 0
    /\ queries = <<>>
    /\ core = NoCore
    /\ visited = <<>>

\* sortedKeys[keyIdx:] for the start key
FromStart(keys, startKey) ==
    IF startKey = None THEN keys
    ELSE SubSeq(keys, IndexOf(keys, startKey), Len(keys))

\* sortedKeys[:keyIdx] for the end key
UpToEnd(keys, endKey) ==
    IF endKey = None THEN keys
    ELSE SubSeq(keys, 1, IndexOf(keys, endKey) - 1)

Raise(error) ==
    /\ outcome' = error
    /\ pc' = "done"

\* startKey is given and is not among the model keys
SelectRaiseStart ==
    /\ pc = "select"
    /\ args.startKey # None
    /\ args.startKey \notin Range(ModelKeys)
    /\ Raise("KeyError")
    /\ UNCHANGED <<args, sortedKeys, keyPos, aSeedSet, yTerms, yLinks,
                   threads, joined, queries, core, visited>>
    /\ UNCHANGED <<cacheVars, rangeVars, cleanVars, aggVars>>

\* endKey is given and is not among the keys left after the start key
SelectRaiseEnd ==
    /\ pc = "select"
    /\ args.startKey # None => args.startKey \in Range(ModelKeys)
    /\ args.endKey # None
    /\ args.endKey \notin Range(FromStart(ModelKeys, args.startKey))
    /\ Raise("KeyError")
    /\ UNCHANGED <<args, sortedKeys, keyPos, aSeedSet, yTerms, yLinks,
                   threads, joined, queries, core, visited>>
    /\ UNCHANGED <<cacheVars, rangeVars, cleanVars, aggVars>>

SelectRange ==
    /\ pc = "select"
    /\ args.startKey # None => args.startKey \in Range(ModelKeys)
    /\ args.endKey # None =>
           args.endKey \in Range(FromStart(ModelKeys, args.startKey))
    /\ LET selected == UpToEnd(FromStart(ModelKeys, args.startKey), args.endKey)
       IN  sortedKeys' = IF args.forwards THEN selected ELSE Reverse(selected)
    /\ keyPos' = 1
    /\ pc' = "iterate"
    /\ UNCHANGED <<args, outcome, aSeedSet, yTerms, yLinks,
                   threads, joined, queries, core, visited>>
    /\ UNCHANGED <<cacheVars, rangeVars, cleanVars, aggVars>>

\* the for loop is exhausted: return yTerms, yLinks
Return ==
    /\ pc = "iterate"
    /\ keyPos > Len(sortedKeys)
    /\ outcome' = "returned"
    /\ pc' = "done"
    /\ UNCHANGED <<args, sortedKeys, keyPos, aSeedSet, yTerms, yLinks,
                   threads, joined, queries, core, visited>>
    /\ UNCHANGED <<cacheVars, rangeVars, cleanVars, aggVars>>

\* the else branch of the loop body
RaiseUnsupported ==
    /\ pc = "iterate"
    /\ keyPos <= Len(sortedKeys)
    /\ args.algorithm \notin {"adaptive", "non-adaptive"}
    /\ Raise("Exception")
    /\ UNCHANGED <<args, sortedKeys, keyPos, aSeedSet, yTerms, yLinks,
                   threads, joined, queries, core, visited>>
    /\ UNCHANGED <<cacheVars, rangeVars, cleanVars, aggVars>>

\* the wordBoost that reaches _trackCore
CoreWordBoost(a) ==
    IF a.algorithm = "adaptive" /\ a.sumSimilarity THEN a.wordBoost
    ELSE DefaultWordBoost

\* the reward that reaches _trackCore
CoreReward(a) ==
    IF a.algorithm = "adaptive" /\ a.sumSimilarity THEN "1-sim" ELSE "1"

\* one loop iteration up to the call of _getRelatedTerms
Expand ==
    /\ pc = "iterate"
    /\ keyPos <= Len(sortedKeys)
    /\ args.algorithm \in {"adaptive", "non-adaptive"}
    /\ core' = [seedTerms |-> aSeedSet,
                wordBoost |-> CoreWordBoost(args),
                reward |-> CoreReward(args),
                dRelatedTerms |-> <<>>, links |-> <<>>]
    /\ threads' = [i \in 1..Len(aSeedSet) |-> "new"]
    /\ joined' = 0
    /\ queries' = <<>>
    /\ pc' = IF Len(aSeedSet) = 0 THEN "core" ELSE "spawn"
    /\ UNCHANGED <<args, outcome, sortedKeys, keyPos, aSeedSet, yTerms,
                   yLinks, visited>>
    /\ UNCHANGED <<cacheVars, rangeVars, cleanVars, aggVars>>

\* t.start() for the next seed term
Spawn ==
    /\ pc = "spawn"
    /\ LET i == CHOOSE i \in 1..Len(threads) :
                    threads[i] = "new" /\ \A j \in 1..(i-1) : threads[j] # "new"
       IN  /\ threads' = [threads EXCEPT ![i] = "started"]
           /\ pc' = IF i = Len(threads) THEN "join" ELSE "spawn"
    /\ UNCHANGED <<args, outcome, sortedKeys, keyPos, aSeedSet, yTerms,
                   yLinks, joined, queries, core, visited>>
    /\ UNCHANGED <<cacheVars, rangeVars, cleanVars, aggVars>>

\* the body of one worker thread
ThreadRun(i) ==
    /\ threads[i] = "started"
    /\ queries' = ThreadAppend(queries, Model(sortedKeys[keyPos]),
                               core.seedTerms[i], args.maxRelatedTerms)
    /\ threads' = [threads EXCEPT ![i] = "done"]
    /\ UNCHANGED <<args, pc, outcome, sortedKeys, keyPos, aSeedSet, yTerms,
                   yLinks, joined, core, visited>>
    /\ UNCHANGED <<cacheVars, rangeVars, cleanVars, aggVars>>

\* t.join() returns once thread i has finished
Joinable(i) == threads[i] = "done"

\* t.join() for the next thread; after the last one queries.sort() and return
Join ==
    /\ pc = "join"
    /\ Joinable(joined + 1)
    /\ joined' = joined + 1
    /\ IF joined + 1 = Len(threads)
       THEN /\ queries' = SortQueries(queries)
            /\ pc' = "core"
       ELSE UNCHANGED <<queries, pc>>
    /\ UNCHANGED <<args, outcome, sortedKeys, keyPos, aSeedSet, yTerms,
                   yLinks, threads, core, visited>>
    /\ UNCHANGED <<cacheVars, rangeVars, cleanVars, aggVars>>

\* _trackCore after _getRelatedTerms, then the rest of the loop body
Core ==
    /\ pc = "core"
    /\ LET sKey == sortedKeys[keyPos]
           acc == Accumulate([d |-> <<>>, links |-> <<>>], queries,
                             args.minSim, core.wordBoost, core.reward)
           topTerms == _getCommonTerms(acc.d, args.maxTerms)
           selectedTerms == {topTerms[i][1] : i \in 1..Len(topTerms)}
           links == PruneLinks(acc.links, selectedTerms)
       IN  /\ core' = [core EXCEPT !.dRelatedTerms = acc.d, !.links = acc.links]
           /\ yTerms' = SortedDictSet(yTerms, sKey, topTerms)
           /\ yLinks' = SortedDictSet(yLinks, sKey, links)
           /\ aSeedSet' = IF args.algorithm = "adaptive"
                          THEN NewSeedSet(topTerms) ELSE aSeedSet
           /\ visited' = Append(visited, [key |-> sKey, seeds |-> core.seedTerms])
    /\ keyPos' = keyPos + 1
    /\ pc' = "iterate"
    /\ UNCHANGED <<args, outcome, sortedKeys, threads, joined, queries>>
    /\ UNCHANGED <<cacheVars, rangeVars, cleanVars, aggVars>>

NextTrack ==
    \/ SelectRaiseStart
    \/ SelectRaiseEnd
    \/ SelectRange
    \/ Return
    \/ RaiseUnsupported
    \/ Expand
    \/ Spawn
    \/ \E i \in 1..Len(threads) : ThreadRun(i)
    \/ Join
    \/ Core

-----------------------------------------------------------------------------
(* CachedW2VModelEvaluator.most_similar under @lru_cache(maxsize=...)      *)
(* The decorator is applied to the function in the class body, so there is *)
(* one cache for the class; self is part of each key.  cache holds the     *)
(* keys, least recently used first.                                        *)

CacheKey(k, term, topn) == [model |-> k, term |-> term, topn |-> topn]

Touch(c, key) == SelectSeq(c, LAMBDA e : e # key) \o <<key>>

Insert(c, key) ==
    IF Len(c) >= maxsize THEN Append(Tail(c), key) ELSE Append(c, key)

InitCache ==
    /\ cache = <<>>
    /\ lastQuery = [model |-> 0, term |-> "", topn |-> 0, hit |-> FALSE]

\* the key is cached: the stored result is returned and the key becomes the
\* most recently used
CacheHit(k, term, topn) ==
    /\ CacheKey(k, term, topn) \in Range(cache)
    /\ cache' = Touch(cache, CacheKey(k, term, topn))
    /\ lastQuery' = [model |-> k, term |-> term, topn |-> topn, hit |-> TRUE]
    /\ UNCHANGED <<trackVars, rangeVars, cleanVars, aggVars>>

\* the key is not cached and the model knows the term: the result is stored,
\* the least recently used key making room when the cache is full
CacheMiss(k, term, topn) ==
    /\ CacheKey(k, term, topn) \notin Range(cache)
    /\ Known(Model(ModelKeys[k]), term)
    /\ cache' = Insert(cache, CacheKey(k, term, topn))
    /\ lastQuery' = [model |-> k, term |-> term, topn |-> topn, hit |-> FALSE]
    /\ UNCHANGED <<trackVars, rangeVars, cleanVars, aggVars>>

\* the wrapped call raises KeyError: lru_cache stores nothing
CacheRaise(k, term, topn) ==
    /\ ~Known(Model(ModelKeys[k]), term)
    /\ cache' = cache
    /\ lastQuery' = [model |-> k, term |-> term, topn |-> topn, hit |-> FALSE]
    /\ UNCHANGED <<trackVars, rangeVars, cleanVars, aggVars>>

NextCache ==
    \E k \in 1..NumModels, term \in Terms, topn \in {MaxRelatedTerms} :
        \/ CacheHit(k, term, topn)
        \/ CacheMiss(k, term, topn)
        \/ CacheRaise(k, term, topn)

-----------------------------------------------------------------------------
(* getRangeMiddle *)

RangeKeys ==
    {[y0 |-> a, yn |-> b] :
        a \in BaseYear..(BaseYear + MaxYearOffset),
        b \in BaseYear..(BaseYear + MaxYearOffset + MaxYearSpan)}

\* Python 3 round(total / 2): an exact half goes to the even neighbour
RoundHalf(total) ==
    IF total % 2 = 0 THEN total \div 2
    ELSE IF (total \div 2) % 2 = 0 THEN total \div 2 ELSE (total \div 2) + 1

getRangeMiddle(first, last) ==
    LET lastKey == IF last = None THEN first ELSE last
        y0 == first.y0
        yn == lastKey.yn
    IN  RoundHalf(yn + y0)

InitRange ==
    /\ rangeArgs \in [first : {k \in RangeKeys : k.y0 <= k.yn},
                      last  : {k \in RangeKeys : k.y0 <= k.yn} \cup {None}]
    /\ rangeResult = 0

CallGetRangeMiddle ==
    /\ rangeResult = 0
    /\ rangeResult' = getRangeMiddle(rangeArgs.first, rangeArgs.last)
    /\ UNCHANGED <<rangeArgs, trackVars, cacheVars, cleanVars, aggVars>>

-----------------------------------------------------------------------------
(* cleanTermList, _isCloseToList (shico/extras/termlistcleaner.py)         *)
(* A word is the sequence of its characters.                               *)

Min2(x, y) == IF x < y THEN x ELSE y

\* one row of the Levenshtein table: the distances of a prefix of the first
\* word extended by ch to every prefix of b, from the row before it
RECURSIVE NextRow(_, _, _, _)
NextRow(prev, ch, b, acc) ==
    IF Len(acc) = Len(prev) THEN acc
    ELSE LET j == Len(acc)
             cost == IF b[j] = ch THEN 0 ELSE 1
         IN  NextRow(prev, ch, b,
                     Append(acc, Min2(Min2(prev[j + 1] + 1, acc[j] + 1),
                                      prev[j] + cost)))

RECURSIVE Rows(_, _, _)
Rows(row, a, b) ==
    IF a = <<>> THEN row
    ELSE Rows(NextRow(row, Head(a), b, <<row[1] + 1>>), Tail(a), b)

\* editdistance.eval(a, b): the Levenshtein distance
editdistance(a, b) ==
    Rows([j \in 1..(Len(b) + 1) |-> j - 1], a, b)[Len(b) + 1]

minEditDiff == 20

\* a distance equal to the threshold counts as too close
IsCloseInclusive(word, known) ==
    100 * editdistance(word, known) <= minEditDiff * Min2(Len(word), Len(known))

\* diff < minEditDiff, diff being editdistance / min(len(word), len(known))
IsClose(word, known) ==
    100 * editdistance(word, known) < minEditDiff * Min2(Len(word), Len(known))

_isCloseToList(word, terms) ==
    \E i \in 1..Len(terms) : IsClose(word, terms[i][1])

oorlog == <<"o", "o", "r", "l", "o", "g">>
corlog == <<"c", "o", "r", "l", "o", "g">>
coriog == <<"c", "o", "r", "i", "o", "g">>
oorlogs == <<"o", "o", "r", "l", "o", "g", "s">>
geboorteplek == <<"g", "e", "b", "o", "o", "r", "t", "e", "p", "l", "e", "k">>
vrede == <<"v", "r", "e", "d", "e">>
vredo == <<"v", "r", "e", "d", "o">>

WordPool == {oorlog, corlog, coriog, oorlogs, geboorteplek, vrede, vredo}

WeightPool == {8, 4, 2}

\* the lists of at most MaxTermList (word, weight) items, heaviest first
TermListChoices ==
    UNION {{l \in [1..n -> WordPool \X WeightPool] :
               \A i \in 1..(n - 1) : l[i][2] >= l[i + 1][2]} : n \in 0..MaxTermList}

InitClean ==
    /\ termList \in TermListChoices
    /\ cleanPos = 0
    /\ cleanTerms = <<>>

\* one iteration of the loop of cleanTermList
CleanStep ==
    /\ cleanPos < Len(termList)
    /\ cleanPos' = cleanPos + 1
    /\ cleanTerms' = IF _isCloseToList(termList[cleanPos + 1][1], cleanTerms)
                     THEN cleanTerms
                     ELSE Append(cleanTerms, termList[cleanPos + 1])
    /\ UNCHANGED <<termList, trackVars, cacheVars, rangeVars, aggVars>>

NextClean == CleanStep

-----------------------------------------------------------------------------
(* VocabularyAggregator.aggregate and _arrangeIntervals                    *)
(* (shico/vocabularyaggregator.py), with the weighting function a caller's *)
(* function that weighs every period 1.                                    *)

\* the window that would run past the last key is kept, cut short
_arrangeIntervalsCut(keys, nYears, yFreq) ==
    [i \in 1..(((Len(keys) - 1) \div yFreq) + 1) |->
        SubSeq(keys, (i - 1) * yFreq + 1,
               Min2((i - 1) * yFreq + nYears, Len(keys)))]

\* windows of nYears consecutive keys from index 0, advancing by yFreq while
\* a full window is left; one window of all keys when nYears >= len(keys)
_arrangeIntervals(keys, nYears, yFreq) ==
    IF nYears >= Len(keys) THEN <<keys>>
    ELSE [i \in 1..(((Len(keys) - nYears) \div yFreq) + 1) |->
            SubSeq(keys, (i - 1) * yFreq + 1, (i - 1) * yFreq + nYears)]

\* the vocabulary tracked for one period
TrackedVocabulary(key) ==
    <<<<"a", 8>>, <<"b", 4 + (key.y0 - BaseYear)>>, <<"c", 2>>>>

\* the weights of the terms of the window's periods, summed per term
RECURSIVE MergeInto(_, _)
MergeInto(d, pairs) ==
    IF pairs = <<>> THEN d
    ELSE MergeInto(WeightAdd(d, Head(pairs)[1], Head(pairs)[2]), Tail(pairs))

RECURSIVE MergeWindow(_, _)
MergeWindow(d, window) ==
    IF window = <<>> THEN d
    ELSE MergeWindow(MergeInto(d, TrackedVocabulary(Head(window))), Tail(window))

\* d[k] = v on a SortedDict keyed by aggregate key
YearDictSet(d, k, v) ==
    IF DictHas(d, k)
    THEN [i \in 1..Len(d) |-> IF d[i][1] = k THEN <<k, v>> ELSE d[i]]
    ELSE LET n == Cardinality({i \in 1..Len(d) : d[i][1] < k})
         IN  SubSeq(d, 1, n) \o <<<<k, v>>>> \o SubSeq(d, n + 1, Len(d))

\* the loop of aggregate over the windows
RECURSIVE AggregateWindows(_, _, _)
AggregateWindows(st, windows, nWords) ==
    IF windows = <<>> THEN st
    ELSE LET window == Head(windows)
             year == getRangeMiddle(window[1], window[Len(window)])
             merged == Take(MostCommon(MergeWindow(<<>>, window)), nWords)
         IN  AggregateWindows([data |-> YearDictSet(st.data, year, merged),
                               meta |-> YearDictSet(st.meta, year, window)],
                              Tail(windows), nWords)

\* the sorted lists of keys of the non-empty sets of periods
KeyListChoices ==
    {SelectSeq([k \in 1..MaxPeriods |-> PeriodKey(k)],
               LAMBDA key : key \in chosen) :
        chosen \in (SUBSET {PeriodKey(k) : k \in 1..MaxPeriods}) \ {{}}}

InitAggregate ==
    /\ aggArgs \in [keys : KeyListChoices,
                    yearsInInterval : 1..MaxWindow,
                    yIntervalFreq : {1, 2},
                    nWordsPerYear : {2}]
    /\ aggCalled = FALSE
    /\ intervals = <<>>
    /\ aggData = <<>>
    /\ aggMeta = <<>>

CallAggregate ==
    /\ ~aggCalled
    /\ aggCalled' = TRUE
    /\ LET windows == _arrangeIntervals(aggArgs.keys, aggArgs.yearsInInterval,
                                        aggArgs.yIntervalFreq)
           result == AggregateWindows([data |-> <<>>, meta |-> <<>>], windows,
                                      aggArgs.nWordsPerYear)
       IN  /\ intervals' = windows
           /\ aggData' = result.data
           /\ aggMeta' = result.meta
    /\ UNCHANGED <<aggArgs, trackVars, cacheVars, rangeVars, cleanVars>>

NextAggregate == CallAggregate

-----------------------------------------------------------------------------
(* Idle values of the parts a specification does not exercise *)

IdleTrack ==
    /\ args = CHOOSE a \in ArgChoices : TRUE
    /\ pc = "done"
    /\ outcome = "returned"
    /\ sortedKeys = <<>>
    /\ keyPos = 0
    /\ aSeedSet = <<>>
    /\ yTerms = <<>>
    /\ yLinks = <<>>
    /\ threads = <<>>
    /\ joined = 0
    /\ queries = <<>>
    /\ core = NoCore
    /\ visited = <<>>

IdleCache == InitCache

IdleRange ==
    /\ rangeArgs = [first |-> None, last |-> None]
    /\ rangeResult = 0

IdleClean ==
    /\ termList = <<>>
    /\ cleanPos = 0
    /\ cleanTerms = <<>>

IdleAggregate ==
    /\ aggArgs = [keys |-> <<>>, yearsInInterval |-> 0, yIntervalFreq |-> 0,
                  nWordsPerYear |-> 0]
    /\ aggCalled = TRUE
    /\ intervals = <<>>
    /\ aggData = <<>>
    /\ aggMeta = <<>>

Init == InitTrack /\ IdleCache /\ IdleRange /\ IdleClean /\ IdleAggregate

Next == NextTrack

Spec == Init /\ [][Next]_vars

NextRange == CallGetRangeMiddle

InitCacheOnly == IdleTrack /\ InitCache /\ IdleRange /\ IdleClean /\ IdleAggregate

SpecCache == InitCacheOnly /\ [][NextCache]_vars

InitRangeOnly == IdleTrack /\ IdleCache /\ InitRange /\ IdleClean /\ IdleAggregate

SpecRange == InitRangeOnly /\ [][NextRange]_vars

InitCleanOnly == IdleTrack /\ IdleCache /\ IdleRange /\ InitClean /\ IdleAggregate

SpecClean == InitCleanOnly /\ [][NextClean]_vars

InitAggregateOnly ==
    IdleTrack /\ IdleCache /\ IdleRange /\ IdleClean /\ InitAggregate

SpecAggregate == InitAggregateOnly /\ [][NextAggregate]_vars

-----------------------------------------------------------------------------
(* Helpers of the properties *)

Supported(a) == a.algorithm \in {"adaptive", "non-adaptive"}

\* a period has been expanded and its _trackCore locals are still in place
CoreDone == pc \in {"iterate", "done"} /\ Len(visited) >= 1

LastKey == visited[Len(visited)].key

VocabularyWords(terms) == [i \in 1..Len(terms) |-> terms[i][1]]

VisitedKeys == [i \in 1..Len(visited) |-> visited[i].key]

Chronological(keys) ==
    \A i, j \in 1..Len(keys) : i < j => KeyLess(keys[i], keys[j])

\* the loaded keys k with startKey <= k < endKey, oldest first
RequestedRange(a) ==
    SelectSeq(ModelKeys,
              LAMBDA k : /\ a.startKey # None => ~KeyLess(k, a.startKey)
                         /\ a.endKey # None => KeyLess(k, a.endKey))

\* the neighbours of one seed that survive the minSim cutoff
Surviving(newTerms) ==
    SelectSeq(newTerms, LAMBDA p : p[2] >= args.minSim)

ContributionOf(q, t) ==
    LET kept == Surviving(q[2])
    IN  SumSeq([i \in 1..Len(kept) |->
                   IF kept[i][1] = t THEN Reward(core.reward, kept[i][2]) ELSE 0])

SummedWeight(t) ==
    (IF t \in Range(core.seedTerms) THEN core.wordBoost ELSE 0)
    + SumSeq([i \in 1..Len(queries) |-> ContributionOf(queries[i], t)])

Rewarded(t) ==
    \E i \in 1..Len(queries) :
        \E j \in 1..Len(Surviving(queries[i][2])) :
            Surviving(queries[i][2])[j][1] = t

\* what the worker of one seed has to report
Reported(key, seed) ==
    IF Known(Model(key), seed)
    THEN <<seed, most_similar(Model(key), seed, args.maxRelatedTerms)>>
    ELSE <<seed, <<>>>>

\* the seeds in term order, each with its report
InTermOrder(seeds) ==
    [i \in 1..Len(seeds) |->
        CHOOSE s \in Range(seeds) :
            Cardinality({r \in Range(seeds) : Rank(r) < Rank(s)}) = i - 1]

CanonicalQueries(key, seeds) ==
    [i \in 1..Len(seeds) |-> Reported(key, InTermOrder(seeds)[i])]

CanonicalCore(key, seeds) ==
    Accumulate([d |-> <<>>, links |-> <<>>], CanonicalQueries(key, seeds),
               args.minSim, core.wordBoost, core.reward)

K5059 == [y0 |-> 1950, yn |-> 1959]
K5362 == [y0 |-> 1953, yn |-> 1962]

RangeCalled == rangeResult # 0

RangeTotal ==
    rangeArgs.first.y0
    + (IF rangeArgs.last = None THEN rangeArgs.first.yn ELSE rangeArgs.last.yn)

-----------------------------------------------------------------------------
(* The properties *)

\* C1: the seed set used for each expanded period: in adaptive mode the first
\* period uses the caller's seed terms and every later one the words of the
\* vocabulary returned for the period expanded before it; in non-adaptive
\* mode every period uses the caller's seed terms.
C1_SeedPropagation ==
    \A i \in 1..Len(visited) :
        visited[i].seeds =
            IF args.algorithm = "adaptive" /\ i > 1
            THEN VocabularyWords(DictGet(yTerms, visited[i - 1].key))
            ELSE args.seedTerms

C1_Witness ==
    /\ outcome = "returned"
    /\ args.algorithm = "adaptive"
    /\ Len(visited) >= 2
    /\ visited[2].seeds # args.seedTerms

\* C2: with startKey and endKey each omitted or a loaded key, trackClouds
\* returns, having expanded exactly the loaded keys k with
\* startKey <= k < endKey, oldest first when forwards and newest first
\* otherwise, and its result holds exactly those keys.
C2_RangeSelection ==
    ( /\ pc = "done"
      /\ Supported(args)
      /\ args.startKey \in Range(ModelKeys) \cup {None}
      /\ args.endKey \in Range(ModelKeys) \cup {None} )
    => /\ outcome = "returned"
       /\ VisitedKeys = IF args.forwards THEN RequestedRange(args)
                        ELSE Reverse(RequestedRange(args))
       /\ Range(DictKeys(yTerms)) = Range(RequestedRange(args))
       /\ Range(DictKeys(yLinks)) = Range(RequestedRange(args))

\* C3: a call with an algorithm other than 'adaptive' and 'non-adaptive'
\* ends in an error, never in a returned result, whatever the range.
C3_UnsupportedAlgorithmRaises ==
    (pc = "done" /\ ~Supported(args)) => outcome \in {"KeyError", "Exception"}

\* C4 (as amended): the keys of the returned terms and links mappings
\* iterate in chronological order, whatever the direction of the search.
C4_KeysChronological ==
    /\ Chronological(DictKeys(yTerms))
    /\ Chronological(DictKeys(yLinks))
    /\ outcome = "returned" =>
          /\ Range(DictKeys(yTerms)) = Range(sortedKeys)
          /\ Range(DictKeys(yLinks)) = Range(sortedKeys)

C4_Witness ==
    /\ outcome = "returned"
    /\ ~args.forwards
    /\ Len(yTerms) >= 2

\* C4 (as claimed): the keys of the returned terms and links mappings
\* iterate in processing order, which is newest first for the backward
\* direction.
C4_KeysInProcessingOrder ==
    outcome = "returned" =>
        /\ DictKeys(yTerms) = sortedKeys
        /\ DictKeys(yLinks) = sortedKeys

\* C5: after one expansion the accumulated weight of every term is the seed
\* weight if it is a seed (else 0) plus the rewards of all its surviving
\* occurrences among the neighbours of all seeds.
C5_AccumulatedWeights ==
    CoreDone =>
        \A t \in Terms :
            /\ DictHas(core.dRelatedTerms, t) =>
                   DictGet(core.dRelatedTerms, t) = SummedWeight(t)
            /\ (t \in Range(core.seedTerms) \/ Rewarded(t)) =>
                   DictHas(core.dRelatedTerms, t)

\* C6: every expansion uses the caller's wordBoost as seed weight and the
\* reward the caller's sumSimilarity selects, under both algorithms.
C6_CallerWeighting ==
    core # NoCore =>
        /\ core.wordBoost = args.wordBoost
        /\ core.reward = IF args.sumSimilarity THEN "1-sim" ELSE "1"

\* C7: a seed unknown to the period's model is reported as (seed, []), the
\* other seeds are reported with their own neighbours, no error ends the
\* call once a period is being expanded, and the unknown seed gets its
\* self link at distance 0 and the seed weight.
C7_UnknownSeedIsolated ==
    /\ pc = "core" =>
          /\ Len(queries) = Len(core.seedTerms)
          /\ \A i \in 1..Len(core.seedTerms) :
                Reported(sortedKeys[keyPos], core.seedTerms[i]) \in Range(queries)
    /\ CoreDone =>
          /\ outcome \in {"running", "returned"}
          /\ \A u \in Range(core.seedTerms) :
                ~Known(Model(LastKey), u) =>
                    /\ DictHas(core.links, u)
                    /\ DictGet(core.links, u) = <<<<u, 0>>>>
                    /\ DictHas(core.dRelatedTerms, u)
                    /\ DictGet(core.dRelatedTerms, u) = core.wordBoost

C7_Witness ==
    /\ CoreDone
    /\ \E u, s \in Range(core.seedTerms) :
          /\ ~Known(Model(LastKey), u)
          /\ Known(Model(LastKey), s)
          /\ <<u, <<>>>> \in Range(queries)
          /\ DictGet(core.links, s) # <<<<s, 0>>>>

\* C8: _getRelatedTerms returns only when every worker has finished, its
\* list holds one entry per seed in term order, and the vocabulary and the
\* links of the period are those of that list, whatever the interleaving.
C8_JoinBarrierAndOrder ==
    /\ pc = "core" =>
          /\ \A i \in 1..Len(threads) : threads[i] = "done"
          /\ queries = CanonicalQueries(sortedKeys[keyPos], core.seedTerms)
    /\ CoreDone =>
          LET acc == CanonicalCore(LastKey, core.seedTerms)
              top == _getCommonTerms(acc.d, args.maxTerms)
          IN  /\ DictGet(yTerms, LastKey) = top
              /\ DictGet(yLinks, LastKey) =
                    PruneLinks(acc.links, Range(VocabularyWords(top)))

C8_Witness ==
    /\ pc = "core"
    /\ Len(core.seedTerms) >= 2
    /\ Rank(core.seedTerms[1]) > Rank(core.seedTerms[2])

\* C9: a query against one period's model never evicts an entry cached for
\* another period's model.
C9_CachePerModel ==
    [][\A i \in 1..Len(cache) :
          cache[i].model # lastQuery'.model => cache[i] \in Range(cache')]_vars

\* C10: getRangeMiddle returns the average of the start year of first and
\* the end year of last rounded to the nearest integer: 1955 for '1950_1959'
\* and 1956 for ('1950_1959', '1953_1962').
C10_RangeMiddleAsClaimed ==
    RangeCalled =>
        /\ 2 * rangeResult - RangeTotal \in {-1, 0, 1}
        /\ rangeArgs = [first |-> K5059, last |-> None] => rangeResult = 1955
        /\ rangeArgs = [first |-> K5059, last |-> K5362] => rangeResult = 1956

\* C14: for every period of the result, each pair of each seed's links has
\* its related term in the period's vocabulary, the vocabulary holds at most
\* maxTerms terms, all distinct, and the links of a seed are its links
\* before pruning with the pairs outside the vocabulary left out, the others
\* in their order.
C14_LinksClosedOverVocabulary ==
    /\ \A n \in 1..Len(yTerms) :
          LET vocabulary == VocabularyWords(yTerms[n][2])
              links == DictGet(yLinks, yTerms[n][1])
          IN  /\ Len(vocabulary) <= args.maxTerms
              /\ \A i, j \in 1..Len(vocabulary) :
                    i # j => vocabulary[i] # vocabulary[j]
              /\ \A s \in 1..Len(links) : \A p \in 1..Len(links[s][2]) :
                    links[s][2][p][1] \in Range(vocabulary)
    /\ CoreDone =>
          LET vocabulary == Range(VocabularyWords(DictGet(yTerms, LastKey)))
              links == DictGet(yLinks, LastKey)
          IN  /\ DictKeys(links) = DictKeys(core.links)
              /\ \A s \in 1..Len(links) :
                    LET before == core.links[s][2]
                        inside == {p \in 1..Len(before) :
                                      before[p][1] \in vocabulary}
                        after == links[s][2]
                    IN  /\ Len(after) = Cardinality(inside)
                        /\ \A p \in inside :
                              after[Cardinality({q \in inside : q <= p})]
                                  = before[p]

C14_Witness ==
    /\ CoreDone
    /\ \E s \in 1..Len(core.links) :
          /\ Len(DictGet(yLinks, LastKey)[s][2]) >= 1
          /\ Len(DictGet(yLinks, LastKey)[s][2]) < Len(core.links[s][2])

\* C15: in adaptive mode (the caller's seed list not empty, maxTerms >= 1)
\* the vocabulary of every expanded period is not empty and neither is the
\* seed set of any period, also when the model knows none of the seeds.
C15_AdaptiveSeedsNeverEmpty ==
    (args.algorithm = "adaptive" /\ args.seedTerms # <<>> /\ args.maxTerms >= 1)
    => /\ \A n \in 1..Len(yTerms) : yTerms[n][2] # <<>>
       /\ \A i \in 1..Len(visited) : visited[i].seeds # <<>>
       /\ aSeedSet # <<>>

C15_Witness ==
    /\ CoreDone
    /\ args.algorithm = "adaptive"
    /\ Len(visited) >= 2
    /\ \A u \in Range(visited[1].seeds) : ~Known(Model(visited[1].key), u)
    /\ visited[2].seeds # <<>>

\* editDistance(a, b) / min(len(a), len(b)) < 0.20
NearerThanThreshold(a, b) ==
    5 * editdistance(a, b) < (IF Len(a) < Len(b) THEN Len(a) ELSE Len(b))

\* the items of l at the positions in S, in their order
Restrict(l, S) ==
    [k \in 1..Cardinality(S) |->
        l[CHOOSE i \in S : Cardinality({j \in S : j <= i}) = k]]

\* C11: at every point of the loop the items kept are those of the items
\* handled so far that are not nearer than the threshold to an item kept
\* before them, in input order and with their weights; the first item is
\* kept; no two kept words are nearer than the threshold;
\* [('oorlog',8),('corlog',2)] loses 'corlog' and
\* [('oorlog',8),('geboorteplek',4)] keeps both.
C11_CleanTermList ==
    /\ \E S \in SUBSET (1..cleanPos) :
          /\ cleanTerms = Restrict(termList, S)
          /\ \A i \in 1..cleanPos :
                i \in S <=>
                    ~\E j \in S : j < i /\ NearerThanThreshold(termList[i][1],
                                                              termList[j][1])
    /\ cleanPos >= 1 => cleanTerms # <<>> /\ cleanTerms[1] = termList[1]
    /\ \A i, j \in 1..Len(cleanTerms) :
          i # j => ~NearerThanThreshold(cleanTerms[i][1], cleanTerms[j][1])
    /\ (termList = <<<<oorlog, 8>>, <<corlog, 2>>>> /\ cleanPos = 2)
          => cleanTerms = <<<<oorlog, 8>>>>
    /\ (termList = <<<<oorlog, 8>>, <<geboorteplek, 4>>>> /\ cleanPos = 2)
          => cleanTerms = termList

C11_Witness ==
    /\ cleanPos = 3
    /\ termList = <<<<oorlog, 8>>, <<corlog, 2>>, <<coriog, 2>>>>
    /\ cleanTerms = <<<<oorlog, 8>>, <<coriog, 2>>>>

AggregateCalled == aggCalled /\ aggArgs.keys # <<>>

FiveKeys == [k \in 1..5 |-> PeriodKey(k)]

\* C12: with step frequency 1, _arrangeIntervals on N sorted keys with window
\* size w returns in order the N - w + 1 runs of w consecutive keys starting
\* at indices 0..N-w when w <= N, and the one window of all N keys when
\* w >= N; every window holds min(w, N) keys; the five keys 1950_1959 ..
\* 1954_1963 with w = 3 give the three windows starting at the first three.
C12_ArrangeIntervals ==
    (AggregateCalled /\ aggArgs.yIntervalFreq = 1) =>
        LET keys == aggArgs.keys
            N == Len(keys)
            w == aggArgs.yearsInInterval
        IN  /\ w <= N =>
                /\ Len(intervals) = N - w + 1
                /\ \A i \in 1..(N - w + 1) :
                      intervals[i] = SubSeq(keys, i, i + w - 1)
            /\ w >= N => intervals = <<keys>>
            /\ \A i \in 1..Len(intervals) : Len(intervals[i]) = Min2(w, N)
            /\ (keys = FiveKeys /\ w = 3) =>
                  intervals = <<SubSeq(FiveKeys, 1, 3), SubSeq(FiveKeys, 2, 4),
                                SubSeq(FiveKeys, 3, 5)>>

C12_Witness ==
    /\ AggregateCalled
    /\ aggArgs.yIntervalFreq = 1
    /\ aggArgs.keys = FiveKeys
    /\ aggArgs.yearsInInterval = 3
    /\ Len(intervals) = 3
    /\ intervals[3] = <<PeriodKey(3), PeriodKey(4), PeriodKey(5)>>

\* C13: aggregate with window size 1 and step frequency 1 returns one
\* aggregate key per input period, in the order of the input periods, each
\* the midpoint of its period, and the metadata mapping has the same keys in
\* the same order as the aggregated result.
C13_OneAggregateKeyPerPeriod ==
    (AggregateCalled /\ aggArgs.yearsInInterval = 1
                     /\ aggArgs.yIntervalFreq = 1) =>
        /\ Len(aggData) = Len(aggArgs.keys)
        /\ DictKeys(aggMeta) = DictKeys(aggData)
        /\ \A i \in 1..Len(aggData) :
              i <= Len(aggArgs.keys) =>
                  /\ aggData[i][1] = getRangeMiddle(aggArgs.keys[i], None)
                  /\ aggMeta[i][2] = <<aggArgs.keys[i]>>

====
